---- MODULE Spec2Model ----
(***************************************************************************)
(* Model of the forward handler (forwardHandler.Handle and its HTTP-aware  *)
(* relay) and of the hosts registry (hostsRegistry / hostsWrapper).        *)
(*                                                                         *)
(* Two specifications share the module:                                    *)
(*   RegSpec  - the hosts registry: Register, Get, Lookup through handles. *)
(*   Spec     - relay sessions handled one after another by one handler.   *)
(***************************************************************************)
EXTENDS Integers, Sequences, FiniteSets, TLC

(***************************************************************************)
(* Bounds                                                                  *)
(***************************************************************************)
\* most elements (requests or raw bytes) the two peers send during one session
MaxSend == 2
\* capacity of a host's token bucket
Burst == 1
\* handleHTTP, line 169, with an unbuffered channel: make(chan error)
ErrcCapZero == 1 - 1

\* capacity of the channel errc
ErrcCap == 1

(***************************************************************************)
(* ======================  HOSTS REGISTRY  ==============================  *)
(***************************************************************************)
VARIABLES
    store,      \* registry.m : name -> registered HostMapper (or NoImpl)
    overwrite,  \* duplicate-name policy of the generic registry
    handles,    \* the HostMapper values handed out by Get so far
    regErr,     \* error returned by the last Register
    lastCall,   \* the last Lookup made through a handle, with its result
    lastReg,    \* history: implementation passed to the last Register(n, _)
    lastOk,     \* history: implementation passed to the last Register(n, _) that returned nil
    getSaw      \* history: what was stored under n when Get(n) was first called

regVars == <<store, overwrite, handles, regErr, lastCall, lastReg, lastOk, getSaw>>

Names    == {"", "a", "b"}
Impls    == {"A", "B"}
NoImpl   == "none"
Networks == {"ip4", "ip6"}
LookupHosts == {"x", "y"}

\* a nil hosts.HostMapper interface value
NilHandle == [nil |-> TRUE]
\* result of a Lookup that found nothing: (nil, false)
NotFound == [ips |-> {}, ok |-> FALSE]
\* outcome of a method call on a nil interface value
Panic == [panic |-> TRUE]
NoCall == [none |-> TRUE]

\* The registered implementations: two distinguishable HostMappers.
ImplLookup(impl, network, host) ==
    IF impl = "A"
    THEN IF host = "x" THEN [ips |-> {<<"A", network>>}, ok |-> TRUE] ELSE NotFound
    ELSE [ips |-> {<<"B", network, host>>}, ok |-> TRUE]

\* registry.Register of the generic store
RegistryRegister(m, pol, name, v) ==
    IF m[name] # NoImpl /\ ~pol
    THEN [m |-> m, err |-> "ErrDup"]
    ELSE [m |-> [m EXCEPT ![name] = v], err |-> "nil"]

\* registry.Get of the generic store
RegistryGet(m, name) == m[name]

\* hostsRegistry.Get
GetHandleNilAlways(name) == NilHandle

GetHandle(name) ==
    IF name # "" THEN [name |-> name] ELSE NilHandle

\* hostsWrapper.Lookup bound to what was registered when the handle was obtained
WrapperLookupEarly(w, m, network, host) ==
    LET v == IF getSaw[w.name] = "never" THEN NoImpl ELSE getSaw[w.name]
    IN  IF v = NoImpl THEN NotFound ELSE ImplLookup(v, network, host)

\* hostsWrapper.Lookup with the nil test inverted
WrapperLookupInverted(w, m, network, host) ==
    LET v == RegistryGet(m, w.name)
    IN  IF v # NoImpl THEN NotFound ELSE ImplLookup("A", network, host)

\* hostsWrapper.Lookup
WrapperLookup(w, m, network, host) ==
    LET v == RegistryGet(m, w.name)
    IN  IF v = NoImpl THEN NotFound ELSE ImplLookup(v, network, host)

\* a caller invoking Lookup on a value obtained from Get
InvokeLookup(h, m, network, host) ==
    IF h = NilHandle THEN Panic ELSE WrapperLookup(h, m, network, host)

(***************************************************************************)
(* ======================  FORWARD HANDLER  =============================  *)
(***************************************************************************)
VARIABLES
    \* the handler and what sessions share
    sniffing,     \* h.md.sniffing
    rateLimiter,  \* h.options.RateLimiter: "nil" or "set"
    hop,          \* h.hop: "nil" or "hop"
    tokens,       \* tokens left in the bucket of each host that has a limiter
    marker,       \* Marker of each node of the hop: "alive" or "dead"
    \* the session being handled
    pc,           \* position of Handle
    conn,         \* accepted connection: "none", "open", "closed"
    connKind,     \* "stream", or "packet" when conn is a net.PacketConn
    connRemote,   \* conn.RemoteAddr()
    connLocal,    \* conn.LocalAddr()
    cc,           \* dialed connection: "none", "open", "closed"
    host,         \* Handle's host
    protocol,     \* Handle's protocol
    target,       \* Handle's target: a node of the hop, DirectNode or NilNode
    dialAddr,     \* address passed to router.Dial
    dialOk,       \* "none", "ok", "fail"
    markerBefore, \* Marker of the target when Dial was called
    allowRes,     \* what limiter.Allow(1) answered: "none", "true", "false"
    ret,          \* value returned by Handle: "none", "nil" or an error
    relayMode,    \* "none", "plain" (xnet.Transport), "http" (handleHTTP)
    relayRes,     \* what the relay phase returned to Handle
    nSniff, nSelect, nDial, nMark, nReset,   \* calls made by this session
    \* the two byte streams of the session
    c2s,          \* sent by the client, not yet read from conn
    cSent,        \* everything the client has sent
    cClosed,      \* the client has closed its sending side
    tRecv,        \* everything written to the dialed connection
    t2c,          \* sent by the target, not yet read from cc
    tSent,        \* everything the target has sent
    tClosed,      \* the target has closed its sending side
    cRecv,        \* everything written to the accepted connection
    \* handleHTTP
    brBuf,        \* bytes held by br (bufio.NewReader(src)), read but not parsed
    upPc,         \* rewrite task: "off", "read", "copy", "send", "exit"
    upRes,        \* error the rewrite task is about to report
    downPc,       \* passthrough task: "off", "copy", "send", "exit"
    downRes,      \* error the passthrough task is about to report
    errc          \* the channel errc (capacity ErrcCap)

cfgVars  == <<sniffing, rateLimiter, hop, tokens, marker>>
ctlVars  == <<pc, conn, connKind, connRemote, connLocal, cc, host, protocol, target,
              dialAddr, dialOk, markerBefore, allowRes, ret, relayMode,
              relayRes, nSniff, nSelect, nDial, nMark, nReset>>
ioVars   == <<c2s, cSent, cClosed, tRecv, t2c, tSent, tClosed, cRecv>>
taskVars == <<brBuf, upPc, upRes, downPc, downRes, errc>>
sessVars == <<cfgVars, ctlVars, ioVars, taskVars>>
vars     == <<regVars, sessVars>>

(***************************************************************************)
(* Strings that the code takes apart are sequences of characters.          *)
(***************************************************************************)
Str0 == <<>>
Contains(s, c) == \E i \in 1..Len(s) : s[i] = c
\* strings.LastIndex / strings.Index for one character; 0 when absent
LastIndex(s, c) ==
    IF Contains(s, c) THEN CHOOSE i \in 1..Len(s) : s[i] = c /\ \A j \in (i+1)..Len(s) : s[j] # c
    ELSE 0
FirstIndex(s, c) ==
    IF Contains(s, c) THEN CHOOSE i \in 1..Len(s) : s[i] = c /\ \A j \in 1..(i-1) : s[j] # c
    ELSE 0

\* net.SplitHostPort
SplitHostPort(hostport) ==
    LET i   == LastIndex(hostport, ":")
        bad == [host |-> Str0, port |-> Str0, err |-> TRUE]
    IN  IF i = 0 THEN bad
        ELSE IF hostport[1] = "["
        THEN LET end == FirstIndex(hostport, "]")
             IN  IF end = 0 THEN bad
                 ELSE IF end + 1 # i THEN bad
                 ELSE IF Contains(SubSeq(hostport, 2, Len(hostport)), "[") THEN bad
                 ELSE IF Contains(SubSeq(hostport, end + 1, Len(hostport)), "]") THEN bad
                 ELSE [host |-> SubSeq(hostport, 2, end - 1),
                       port |-> SubSeq(hostport, i + 1, Len(hostport)),
                       err  |-> FALSE]
        ELSE IF Contains(SubSeq(hostport, 1, i - 1), ":") THEN bad
        ELSE IF Contains(hostport, "[") \/ Contains(hostport, "]") THEN bad
        ELSE [host |-> SubSeq(hostport, 1, i - 1),
              port |-> SubSeq(hostport, i + 1, Len(hostport)),
              err  |-> FALSE]

\* net.JoinHostPort
JoinHostPort(h, port) ==
    IF Contains(h, ":") \/ Contains(h, "%")
    THEN <<"[">> \o h \o <<"]", ":">> \o port
    ELSE h \o <<":">> \o port

\* Handle, lines 100-102, without the default port
NormalizeHostNoPort(h) == h

\* Handle, lines 100-102
NormalizeHost(h) ==
    IF SplitHostPort(h).err THEN JoinHostPort(h, <<"0">>) ELSE h

(***************************************************************************)
(* The world around the handler                                            *)
(***************************************************************************)
RemoteAddrs  == {<<"p", ":", "1">>, <<"q", ":", "2">>}
LocalAddrs   == {<<"d", ":", "9">>}
LimiterHosts == {<<"p">>}
ConnKinds    == {"stream", "packet"}

Nodes      == {"n1", "n2"}
NilNode    == "nil"
DirectNode == "direct"
NoNode     == "none"

HeaderNames == {"Upgrade", "User-Agent", "X"}
Absent      == "<absent>"
NoHTTP      == [nil |-> TRUE]

\* chain.Node.Addr of the nodes of the hop
NodeAddr(n) == IF n = "n1" THEN <<"n", ":", "1">> ELSE <<"m", ":", "2">>

\* chain.Node.Options().HTTP: n1 carries HTTP settings, every other node none
NodeHTTP(n) ==
    IF n = "n1"
    THEN [Host |-> <<"n", "e", "w">>, Header |-> [k \in {"X"} |-> "1"]]
    ELSE NoHTTP

\* target.Addr, with the node built at lines 103-105 never replaced
TargetAddrHost(t, h) == h

\* target.Addr
TargetAddr(t, h) ==
    IF t \in Nodes THEN NodeAddr(t) ELSE IF t = DirectNode THEN h ELSE Str0

\* what a peer may send: whole HTTP requests and raw bytes
Request(h, upgrade, ua) ==
    [kind |-> "req", host |-> h,
     hdr |-> [k \in HeaderNames |->
                 IF k = "Upgrade" THEN upgrade ELSE IF k = "User-Agent" THEN ua ELSE Absent]]
Byte(i) == [kind |-> "byte", v |-> i]
ReqPlain   == Request(<<"h">>, Absent, Absent)
ReqUpgrade == Request(<<"h", ":", "8">>, "websocket", "c")
\* a request whose Host is an IPv6 literal without a port
ReqV6      == Request(<<"[", ":", ":", "1", "]">>, Absent, "c")
ClientElems(i) == {ReqPlain, ReqUpgrade, ReqV6, Byte(i)}

IsPrefix(s, t) == Len(s) <= Len(t) /\ SubSeq(t, 1, Len(s)) = s
Suffix(s, k)   == SubSeq(s, k + 1, Len(s))

(***************************************************************************)
(* Collaborators of Handle                                                 *)
(***************************************************************************)
\* limiter.Allow(1) on the bucket of host h
LimiterAllow(tok, h) ==
    IF tok[h] > 0
    THEN [allow |-> TRUE,  tokens |-> [tok EXCEPT ![h] = @ - 1], asked |-> "true"]
    ELSE [allow |-> FALSE, tokens |-> tok, asked |-> "false"]

\* forwardHandler.checkRateLimit, with the limiter looked up under the whole
\* remote address instead of its host
CheckRateLimitNoStrip(rl, remote, tok) ==
    IF rl = "nil"
    THEN [allow |-> TRUE, tokens |-> tok, asked |-> "none"]
    ELSE IF remote \in LimiterHosts
         THEN LimiterAllow(tok, remote)
         ELSE [allow |-> TRUE, tokens |-> tok, asked |-> "none"]

\* forwardHandler.checkRateLimit
CheckRateLimit(rl, remote, tok) ==
    IF rl = "nil"
    THEN [allow |-> TRUE, tokens |-> tok, asked |-> "none"]
    ELSE LET h == SplitHostPort(remote).host
         IN  IF h \in LimiterHosts
             THEN LimiterAllow(tok, h)
             ELSE [allow |-> TRUE, tokens |-> tok, asked |-> "none"]

\* forward.Sniffing: classifies the leading bytes, consumes nothing
Sniffing(stream) ==
    IF stream # <<>> /\ Head(stream).kind = "req"
    THEN [host |-> Head(stream).host, protocol |-> "http"]
    ELSE [host |-> Str0, protocol |-> ""]

\* Handle, lines 81-83, going on after a denial
AfterRateLimitIgnored(allowed) == "admitted"

\* Handle, lines 81-83
AfterRateLimit(allowed) == IF ~allowed THEN "done" ELSE "admitted"

\* Handle, lines 111-115, going on without a target
AfterSelectIgnored(t) == "resolved"

\* Handle, lines 111-115
AfterSelect(t) == IF t = NilNode THEN "done" ELSE "resolved"

\* Handle, lines 125-133, trying the dial again
AfterDialRetry(ok) == IF ~ok THEN "resolved" ELSE "relay"

\* Handle, lines 125-133
AfterDial(ok) == IF ~ok THEN "done" ELSE "relay"

\* Handle, lines 129-137, with a failed dial marking every node of the hop
DialMarkerAll(m, t, ok) ==
    IF t \in Nodes
    THEN IF ok THEN [m EXCEPT ![t] = "alive"] ELSE [n \in Nodes |-> "dead"]
    ELSE m

\* Handle, lines 129-137, with Reset left out
DialMarkerNoReset(m, t, ok) ==
    IF t \in Nodes /\ ~ok THEN [m EXCEPT ![t] = "dead"] ELSE m

\* Handle, lines 129-137: Mark on a failed dial, Reset on a successful one;
\* the node of the direct mode has no Marker
DialMarker(m, t, ok) ==
    IF t \in Nodes
    THEN [m EXCEPT ![t] = IF ok THEN "alive" ELSE "dead"]
    ELSE m

\* the deferred Close left out
DeferredCloseMissing(c) == c

\* Handle, lines 66 and 134: the deferred Close of a connection
DeferredClose(c) == IF c = "open" THEN "closed" ELSE c

\* Handle, lines 142-147, without the test of the protocol
RelayModeOfSettingsOnly(proto, t) ==
    IF t \in Nodes /\ NodeHTTP(t) # NoHTTP THEN "http" ELSE "plain"

\* Handle, lines 142-147
RelayModeOf(proto, t) ==
    IF proto = "http" /\ t \in Nodes /\ NodeHTTP(t) # NoHTTP THEN "http" ELSE "plain"

\* Handle, lines 144-153: the result of the relay is dropped
HandleRelayReturn(res) == "nil"

(***************************************************************************)
(* The registry's operations                                               *)
(***************************************************************************)
RegInit ==
    /\ store = [n \in Names |-> NoImpl]
    /\ overwrite \in BOOLEAN
    /\ handles = {}
    /\ regErr = "nil"
    /\ lastCall = NoCall
    /\ lastReg = [n \in Names |-> NoImpl]
    /\ lastOk = [n \in Names |-> NoImpl]
    /\ getSaw = [n \in Names |-> "never"]

Register(name, v) ==
    /\ LET r == RegistryRegister(store, overwrite, name, v)
       IN  /\ store' = r.m
           /\ regErr' = r.err
           /\ lastReg' = [lastReg EXCEPT ![name] = v]
           /\ lastOk' = IF r.err = "nil" THEN [lastOk EXCEPT ![name] = v] ELSE lastOk
    /\ UNCHANGED <<overwrite, handles, lastCall, getSaw>>
    /\ UNCHANGED sessVars

Get(name) ==
    /\ handles' = handles \cup {GetHandle(name)}
    /\ getSaw' = IF getSaw[name] = "never"
                 THEN [getSaw EXCEPT ![name] = store[name]] ELSE getSaw
    /\ UNCHANGED <<store, overwrite, regErr, lastCall, lastReg, lastOk>>
    /\ UNCHANGED sessVars

Lookup(h, network, name) ==
    /\ h \in handles
    /\ lastCall' = [handle  |-> h,
                    network |-> network,
                    host    |-> name,
                    result  |-> InvokeLookup(h, store, network, name),
                    reg     |-> IF h = NilHandle THEN NoImpl ELSE lastReg[h.name],
                    regOk   |-> IF h = NilHandle THEN NoImpl ELSE lastOk[h.name],
                    saw     |-> IF h = NilHandle THEN getSaw[""] ELSE getSaw[h.name]]
    /\ UNCHANGED <<store, overwrite, handles, regErr, lastReg, lastOk, getSaw>>
    /\ UNCHANGED sessVars

RegNext ==
    \/ \E n \in Names, v \in Impls : Register(n, v)
    \/ \E n \in Names : Get(n)
    \/ \E h \in handles, nw \in Networks, nm \in LookupHosts : Lookup(h, nw, nm)

(***************************************************************************)
(* Handler set-up                                                          *)
(***************************************************************************)
SessInit ==
    /\ sniffing \in BOOLEAN
    /\ rateLimiter \in {"nil", "set"}
    /\ hop = "nil"
    /\ tokens = [h \in LimiterHosts |-> Burst]
    /\ marker = [n \in Nodes |-> "alive"]
    /\ pc = "idle"
    /\ conn = "none" /\ connKind = "stream"
    /\ connRemote = Str0 /\ connLocal = Str0
    /\ cc = "none"
    /\ host = Str0 /\ protocol = ""
    /\ target = NoNode
    /\ dialAddr = Str0 /\ dialOk = "none" /\ markerBefore = "none"
    /\ allowRes = "none" /\ ret = "none"
    /\ relayMode = "none" /\ relayRes = "none"
    /\ nSniff = 0 /\ nSelect = 0 /\ nDial = 0 /\ nMark = 0 /\ nReset = 0
    /\ c2s = <<>> /\ cSent = <<>> /\ cClosed = FALSE /\ tRecv = <<>>
    /\ t2c = <<>> /\ tSent = <<>> /\ tClosed = FALSE /\ cRecv = <<>>
    /\ brBuf = <<>> /\ upPc = "off" /\ upRes = "none"
    /\ downPc = "off" /\ downRes = "none" /\ errc = <<>>

Init == RegInit /\ SessInit

NoSession == pc \in {"idle", "done"} /\ upPc \in {"off", "exit"} /\ downPc \in {"off", "exit"}

\* forwardHandler.Forward: the hop is attached when the service is set up,
\* before the handler is given connections
Forward(h) ==
    /\ pc = "idle"
    /\ hop' = h
    /\ UNCHANGED <<sniffing, rateLimiter, tokens, marker, ctlVars, ioVars, taskVars>>
    /\ UNCHANGED regVars

\* the token bucket refills as time passes; a refill during a session has the
\* effect of one before it or after it, so it is taken between sessions
Refill(h) ==
    /\ NoSession
    /\ tokens[h] < Burst
    /\ tokens' = [tokens EXCEPT ![h] = @ + 1]
    /\ UNCHANGED <<sniffing, rateLimiter, hop, marker, ctlVars, ioVars, taskVars>>
    /\ UNCHANGED regVars

(***************************************************************************)
(* Handle, up to the relay                                                 *)
(***************************************************************************)
\* Handle is called with an accepted connection
Accept(remote, local, kind) ==
    /\ NoSession
    /\ pc' = "accepted"
    /\ conn' = "open" /\ connKind' = kind
    /\ connRemote' = remote /\ connLocal' = local
    /\ cc' = "none"
    /\ host' = Str0 /\ protocol' = ""
    /\ target' = NoNode
    /\ dialAddr' = Str0 /\ dialOk' = "none" /\ markerBefore' = "none"
    /\ allowRes' = "none" /\ ret' = "none"
    /\ relayMode' = "none" /\ relayRes' = "none"
    /\ nSniff' = 0 /\ nSelect' = 0 /\ nDial' = 0 /\ nMark' = 0 /\ nReset' = 0
    /\ c2s' = <<>> /\ cSent' = <<>> /\ cClosed' = FALSE /\ tRecv' = <<>>
    /\ t2c' = <<>> /\ tSent' = <<>> /\ tClosed' = FALSE /\ cRecv' = <<>>
    /\ brBuf' = <<>> /\ upPc' = "off" /\ upRes' = "none"
    /\ downPc' = "off" /\ downRes' = "none" /\ errc' = <<>>
    /\ UNCHANGED cfgVars
    /\ UNCHANGED regVars

\* Handle, lines 81-83
RateLimit ==
    /\ pc = "accepted"
    /\ LET r == CheckRateLimit(rateLimiter, connRemote, tokens)
           next == AfterRateLimit(r.allow)
       IN  /\ tokens' = r.tokens
           /\ allowRes' = r.asked
           /\ pc' = next
           /\ ret' = IF next = "done" THEN "nil" ELSE ret
           /\ conn' = IF next = "done" THEN DeferredClose(conn) ELSE conn
    /\ UNCHANGED <<sniffing, rateLimiter, hop, marker, connKind, connRemote, connLocal,
                   cc, host, protocol, target, dialAddr, dialOk, markerBefore,
                   relayMode, relayRes, nSniff, nSelect, nDial, nMark, nReset,
                   ioVars, taskVars>>
    /\ UNCHANGED regVars

\* Handle, lines 85-98
Sniff ==
    /\ pc = "admitted"
    /\ LET network == IF connKind = "packet" THEN "udp" ELSE "tcp"
           doSniff == sniffing /\ network = "tcp"
           r       == Sniffing(c2s)
       IN  /\ host' = IF doSniff THEN r.host ELSE Str0
           /\ protocol' = IF doSniff THEN r.protocol ELSE ""
           /\ nSniff' = IF doSniff THEN nSniff + 1 ELSE nSniff
    /\ pc' = "sniffed"
    /\ UNCHANGED <<cfgVars, conn, connKind, connRemote, connLocal, cc, target,
                   dialAddr, dialOk, markerBefore, allowRes, ret, relayMode, relayRes,
                   nSelect, nDial, nMark, nReset, ioVars, taskVars>>
    /\ UNCHANGED regVars

\* Handle, lines 100-116; sel is what hop.Select answers
Resolve(sel) ==
    /\ pc = "sniffed"
    /\ sel \in Nodes \cup {NilNode}
    /\ hop = "nil" => sel = NilNode
    /\ LET h    == NormalizeHost(host)
           t    == IF hop = "nil" THEN DirectNode ELSE sel
           next == IF hop = "nil" THEN "resolved" ELSE AfterSelect(t)
       IN  /\ host' = h
           /\ target' = t
           /\ nSelect' = IF hop = "nil" THEN nSelect ELSE nSelect + 1
           /\ pc' = next
           /\ ret' = IF next = "done" THEN "target not available" ELSE ret
           /\ conn' = IF next = "done" THEN DeferredClose(conn) ELSE conn
    /\ UNCHANGED <<cfgVars, connKind, connRemote, connLocal, cc, protocol, dialAddr,
                   dialOk, markerBefore, allowRes, relayMode, relayRes,
                   nSniff, nDial, nMark, nReset, ioVars, taskVars>>
    /\ UNCHANGED regVars

\* Handle, lines 124-147; ok is whether router.Dial succeeds
Dial(ok) ==
    /\ pc = "resolved"
    /\ LET next == AfterDial(ok)
           mode == RelayModeOf(protocol, target)
       IN  /\ pc' = next
           /\ dialAddr' = TargetAddr(target, host)
           /\ dialOk' = IF ok THEN "ok" ELSE "fail"
           /\ nDial' = nDial + 1
           /\ markerBefore' = IF target \in Nodes THEN marker[target] ELSE "none"
           /\ marker' = DialMarker(marker, target, ok)
           /\ nMark' = IF target \in Nodes /\ ~ok THEN nMark + 1 ELSE nMark
           /\ nReset' = IF target \in Nodes /\ ok THEN nReset + 1 ELSE nReset
           /\ cc' = IF ok THEN "open" ELSE cc
           /\ ret' = IF next = "done" THEN "dial error" ELSE ret
           /\ conn' = IF next = "done" THEN DeferredClose(conn) ELSE conn
           /\ relayMode' = IF next = "relay" THEN mode ELSE relayMode
           /\ upPc' = IF next = "relay" /\ mode = "http" THEN "read" ELSE upPc
           /\ downPc' = IF next = "relay" /\ mode = "http" THEN "copy" ELSE downPc
    /\ UNCHANGED <<sniffing, rateLimiter, hop, tokens, connKind, connRemote, connLocal,
                   host, protocol, target, allowRes, relayRes,
                   nSniff, nSelect, ioVars, brBuf, upRes, downRes, errc>>
    /\ UNCHANGED regVars

(***************************************************************************)
(* The peers                                                               *)
(***************************************************************************)
ClientSend(e) ==
    /\ conn = "open" /\ ~cClosed
    /\ Len(cSent) + Len(tSent) < MaxSend
    /\ e \in ClientElems(Len(cSent) + 1)
    /\ c2s' = Append(c2s, e)
    /\ cSent' = Append(cSent, e)
    /\ UNCHANGED <<cfgVars, ctlVars, cClosed, tRecv, t2c, tSent, tClosed, cRecv, taskVars>>
    /\ UNCHANGED regVars

ClientClose ==
    /\ conn = "open" /\ ~cClosed
    /\ cClosed' = TRUE
    /\ UNCHANGED <<cfgVars, ctlVars, c2s, cSent, tRecv, t2c, tSent, tClosed, cRecv, taskVars>>
    /\ UNCHANGED regVars

TargetSend ==
    /\ cc = "open" /\ ~tClosed
    /\ Len(cSent) + Len(tSent) < MaxSend
    /\ t2c' = Append(t2c, Byte(Len(tSent) + 1))
    /\ tSent' = Append(tSent, Byte(Len(tSent) + 1))
    /\ UNCHANGED <<cfgVars, ctlVars, c2s, cSent, cClosed, tRecv, tClosed, cRecv, taskVars>>
    /\ UNCHANGED regVars

TargetClose ==
    /\ cc = "open" /\ ~tClosed
    /\ tClosed' = TRUE
    /\ UNCHANGED <<cfgVars, ctlVars, c2s, cSent, cClosed, tRecv, t2c, tSent, cRecv, taskVars>>
    /\ UNCHANGED regVars

(***************************************************************************)
(* Handle's return from the relay                                          *)
(***************************************************************************)
\* Handle, lines 142-153, with the deferred Closes of lines 66 and 134; what was
\* still in flight on the closed connections is gone
ReturnFromRelay(res) ==
    /\ relayRes' = res
    /\ c2s' = <<>> /\ t2c' = <<>>
    /\ UNCHANGED <<cSent, cClosed, tRecv, tSent, tClosed, cRecv>>
    /\ ret' = HandleRelayReturn(res)
    /\ pc' = "done"
    /\ conn' = DeferredClose(conn)
    /\ cc' = DeferredClose(cc)
    /\ UNCHANGED <<connKind, connRemote, connLocal, host, protocol, target,
                   dialAddr, dialOk, markerBefore, allowRes, relayMode,
                   nSniff, nSelect, nDial, nMark, nReset>>

(***************************************************************************)
(* xnet.Transport: the plain relay                                         *)
(***************************************************************************)
TransportUp(k) ==
    /\ pc = "relay" /\ relayMode = "plain"
    /\ k \in 1..Len(c2s)
    /\ tRecv' = tRecv \o SubSeq(c2s, 1, k)
    /\ c2s' = Suffix(c2s, k)
    /\ UNCHANGED <<cfgVars, ctlVars, cSent, cClosed, t2c, tSent, tClosed, cRecv, taskVars>>
    /\ UNCHANGED regVars

TransportDown(k) ==
    /\ pc = "relay" /\ relayMode = "plain"
    /\ k \in 1..Len(t2c)
    /\ cRecv' = cRecv \o SubSeq(t2c, 1, k)
    /\ t2c' = Suffix(t2c, k)
    /\ UNCHANGED <<cfgVars, ctlVars, c2s, cSent, cClosed, tRecv, tSent, tClosed, taskVars>>
    /\ UNCHANGED regVars

\* a direction reached end-of-stream (nil), or an I/O fault ended the copy
TransportEnd(fault) ==
    /\ pc = "relay" /\ relayMode = "plain"
    /\ \/ fault
       \/ c2s = <<>> /\ cClosed
       \/ t2c = <<>> /\ tClosed
    /\ ReturnFromRelay(IF fault THEN "io error" ELSE "nil")
    /\ UNCHANGED <<cfgVars, taskVars>>
    /\ UNCHANGED regVars

(***************************************************************************)
(* handleHTTP: the HTTP-aware relay                                        *)
(***************************************************************************)
HeaderGet(hdr, k) == IF hdr[k] = Absent THEN "" ELSE hdr[k]

\* handleHTTP, lines 183-188
RewriteRequest(req, settings) ==
    [req EXCEPT
        !.host = IF settings.Host # Str0 THEN settings.Host ELSE @,
        !.hdr  = [k \in HeaderNames |->
                    IF k \in DOMAIN settings.Header THEN settings.Header[k] ELSE @[k]]]

\* req.Write: the request as it goes out on the wire
WriteRequest(req) ==
    [req EXCEPT !.hdr["User-Agent"] = IF @ = Absent THEN "Go-http-client/1.1" ELSE @]

\* handleHTTP, line 198, with the Upgrade header never recognised
IsUpgradeNever(req) == FALSE

\* handleHTTP, line 198
IsUpgrade(req) == HeaderGet(req.hdr, "Upgrade") = "websocket"

Faults == {"none", "read", "write"}

\* handleHTTP, lines 178-205: one round of the rewrite task's loop.
\* br hands out what it holds before it reads src again; a read of src takes the
\* first k elements in flight.
ReadRequest(k, fault) ==
    /\ relayMode = "http" /\ upPc = "read"
    /\ LET canRead == brBuf = <<>> /\ conn = "open" /\ c2s # <<>> /\ fault # "read"
           atEOF   == brBuf = <<>> /\ conn = "open" /\ c2s = <<>> /\ cClosed /\ fault # "read"
           buf     == IF brBuf # <<>> THEN brBuf
                      ELSE IF canRead THEN SubSeq(c2s, 1, k) ELSE <<>>
       IN  /\ k \in 1..(IF canRead THEN Len(c2s) ELSE 1)
           /\ brBuf # <<>> \/ conn # "open" \/ c2s # <<>> \/ cClosed \/ fault = "read"
           /\ c2s' = IF canRead THEN Suffix(c2s, k) ELSE c2s
           /\ IF buf = <<>>
              THEN /\ upRes' = IF atEOF THEN "EOF" ELSE "io error"
                   /\ upPc' = "send"
                   /\ UNCHANGED <<brBuf, tRecv>>
              ELSE IF Head(buf).kind # "req"
              THEN /\ upRes' = "malformed request"
                   /\ upPc' = "send"
                   /\ brBuf' = Tail(buf)
                   /\ UNCHANGED tRecv
              ELSE LET req == RewriteRequest(Head(buf), NodeHTTP(target))
                   IN  /\ brBuf' = Tail(buf)
                       /\ IF cc # "open" \/ fault = "write"
                          THEN /\ upRes' = "io error"
                               /\ upPc' = "send"
                               /\ UNCHANGED tRecv
                          ELSE /\ tRecv' = Append(tRecv, WriteRequest(req))
                               /\ upPc' = IF IsUpgrade(req) THEN "copy" ELSE "read"
                               /\ UNCHANGED upRes
    /\ UNCHANGED <<cfgVars, ctlVars, cSent, cClosed, t2c, tSent, tClosed, cRecv,
                   downPc, downRes, errc>>
    /\ UNCHANGED regVars

\* handleHTTP, lines 199-203: after an upgrade, xnet.CopyBuffer(dst, src, 8192)
\* reads src itself, not br
UpgradeCopy(k, fault) ==
    /\ relayMode = "http" /\ upPc = "copy"
    /\ LET canRead == conn = "open" /\ c2s # <<>> /\ ~fault
           atEOF   == conn = "open" /\ c2s = <<>> /\ cClosed /\ ~fault
       IN  /\ k \in 1..(IF canRead THEN Len(c2s) ELSE 1)
           /\ conn # "open" \/ c2s # <<>> \/ cClosed \/ fault
           /\ IF canRead /\ cc = "open"
              THEN /\ tRecv' = tRecv \o SubSeq(c2s, 1, k)
                   /\ c2s' = Suffix(c2s, k)
                   /\ UNCHANGED <<upPc, upRes>>
              ELSE /\ upRes' = IF atEOF THEN "EOF" ELSE "io error"
                   /\ upPc' = "send"
                   /\ UNCHANGED <<tRecv, c2s>>
    /\ UNCHANGED <<cfgVars, ctlVars, cSent, cClosed, t2c, tSent, tClosed, cRecv,
                   brBuf, downPc, downRes, errc>>
    /\ UNCHANGED regVars

\* handleHTTP, lines 207-210: errc <- err
RewriteSend ==
    /\ upPc = "send"
    /\ Len(errc) < ErrcCap
    /\ errc' = Append(errc, upRes)
    /\ upPc' = "exit"
    /\ UNCHANGED <<cfgVars, ctlVars, ioVars, brBuf, upRes, downPc, downRes>>
    /\ UNCHANGED regVars

\* handleHTTP, line 171, with the arguments of CopyBuffer exchanged: client to
\* target
PassthroughCopySwapped(k, fault) ==
    /\ relayMode = "http" /\ downPc = "copy"
    /\ LET canRead == conn = "open" /\ c2s # <<>> /\ ~fault
           atEOF   == conn = "open" /\ c2s = <<>> /\ cClosed /\ ~fault
       IN  /\ k \in 1..(IF canRead THEN Len(c2s) ELSE 1)
           /\ conn # "open" \/ c2s # <<>> \/ cClosed \/ fault
           /\ IF canRead /\ cc = "open"
              THEN /\ tRecv' = tRecv \o SubSeq(c2s, 1, k)
                   /\ c2s' = Suffix(c2s, k)
                   /\ UNCHANGED <<downPc, downRes>>
              ELSE /\ downRes' = IF atEOF THEN "nil" ELSE "io error"
                   /\ downPc' = "send"
                   /\ UNCHANGED <<tRecv, c2s>>
    /\ UNCHANGED <<cfgVars, ctlVars, t2c, cSent, cClosed, cRecv, tSent, tClosed,
                   brBuf, upPc, upRes, errc>>
    /\ UNCHANGED regVars

\* handleHTTP, line 171: xnet.CopyBuffer(src, dst, 8192), target to client
PassthroughCopy(k, fault) ==
    /\ relayMode = "http" /\ downPc = "copy"
    /\ LET canRead == cc = "open" /\ t2c # <<>> /\ ~fault
           atEOF   == cc = "open" /\ t2c = <<>> /\ tClosed /\ ~fault
       IN  /\ k \in 1..(IF canRead THEN Len(t2c) ELSE 1)
           /\ cc # "open" \/ t2c # <<>> \/ tClosed \/ fault
           /\ IF canRead /\ conn = "open"
              THEN /\ cRecv' = cRecv \o SubSeq(t2c, 1, k)
                   /\ t2c' = Suffix(t2c, k)
                   /\ UNCHANGED <<downPc, downRes>>
              ELSE /\ downRes' = IF atEOF THEN "nil" ELSE "io error"
                   /\ downPc' = "send"
                   /\ UNCHANGED <<cRecv, t2c>>
    /\ UNCHANGED <<cfgVars, ctlVars, c2s, cSent, cClosed, tRecv, tSent, tClosed,
                   brBuf, upPc, upRes, errc>>
    /\ UNCHANGED regVars

\* handleHTTP, lines 170-172: errc <- the copy's result
PassthroughSend ==
    /\ downPc = "send"
    /\ Len(errc) < ErrcCap
    /\ errc' = Append(errc, downRes)
    /\ downPc' = "exit"
    /\ UNCHANGED <<cfgVars, ctlVars, ioVars, brBuf, upPc, upRes, downRes>>
    /\ UNCHANGED regVars

\* handleHTTP, lines 214-218
HandleHTTPResult(e) == IF e # "nil" /\ e # "EOF" THEN e ELSE "nil"

\* handleHTTP, line 214, receiving only once both tasks have exited
ReceiveAfterBoth(ch, up, down) == ch # <<>> /\ up = "exit" /\ down = "exit"

\* handleHTTP, line 214: <-errc is ready as soon as one result is buffered
Receive(ch, up, down) == ch # <<>>

\* handleHTTP, line 214: the first result on errc ends the relay
HTTPReturn ==
    /\ pc = "relay" /\ relayMode = "http"
    /\ Receive(errc, upPc, downPc)
    /\ errc' = Tail(errc)
    /\ ReturnFromRelay(HandleHTTPResult(Head(errc)))
    /\ UNCHANGED <<cfgVars, brBuf, upPc, upRes, downPc, downRes>>
    /\ UNCHANGED regVars

(***************************************************************************)
(* Specifications                                                          *)
(***************************************************************************)
Next ==
    \/ \E h \in {"nil", "hop"} : Forward(h)
    \/ \E h \in LimiterHosts : Refill(h)
    \/ \E r \in RemoteAddrs, l \in LocalAddrs, kd \in ConnKinds : Accept(r, l, kd)
    \/ RateLimit
    \/ Sniff
    \/ \E sel \in Nodes \cup {NilNode} : Resolve(sel)
    \/ \E ok \in BOOLEAN : Dial(ok)
    \/ \E i \in 1..MaxSend : \E e \in ClientElems(i) : ClientSend(e)
    \/ ClientClose
    \/ TargetSend
    \/ TargetClose
    \/ \E k \in 1..MaxSend : TransportUp(k)
    \/ \E k \in 1..MaxSend : TransportDown(k)
    \/ \E f \in BOOLEAN : TransportEnd(f)
    \/ \E k \in 1..MaxSend, f \in Faults : ReadRequest(k, f)
    \/ \E k \in 1..MaxSend, f \in BOOLEAN : UpgradeCopy(k, f)
    \/ RewriteSend
    \/ \E k \in 1..MaxSend, f \in BOOLEAN : PassthroughCopy(k, f)
    \/ PassthroughSend
    \/ HTTPReturn

\* sessions handled by a handler; the registry is left alone
HandlerInit == Init /\ overwrite = FALSE

Spec == HandlerInit /\ [][Next]_vars

\* handleHTTP's goroutines and its receive are scheduled whenever they can take
\* a step: a step that does not depend on a fault of the network is not put off
\* for ever
FairSpec ==
    /\ Spec
    /\ WF_vars(\E k \in 1..MaxSend : ReadRequest(k, "none"))
    /\ WF_vars(\E k \in 1..MaxSend : UpgradeCopy(k, FALSE))
    /\ WF_vars(\E k \in 1..MaxSend : PassthroughCopy(k, FALSE))
    /\ WF_vars(RewriteSend)
    /\ WF_vars(PassthroughSend)
    /\ WF_vars(HTTPReturn)

\* the registry, used while the handler is idle
RegistryInit == Init /\ sniffing = FALSE /\ rateLimiter = "nil"

RegSpec == RegistryInit /\ [][RegNext]_vars

(***************************************************************************)
(* ==========================  CLAIMS  ==================================  *)
(***************************************************************************)

(* C1: on every exit path of Handle the accepted connection is closed when  *)
(* the session has terminated, and whenever the dial succeeded the dialed   *)
(* connection is closed as well: no terminal state leaves either open.      *)
C1_ConnectionsClosedOnExit ==
    pc = "done" =>
        /\ conn = "closed"
        /\ cc # "open"
        /\ dialOk = "ok" => cc = "closed"

C1_Witness ==
    /\ pc = "done" /\ dialOk = "ok" /\ relayRes = "io error"
    /\ conn = "closed" /\ cc = "closed"

(* C2: when the relay phase ends on an I/O fault other than end-of-stream,  *)
(* Handle returns a non-nil error; when it ends on end-of-stream, Handle    *)
(* returns nil.                                                             *)
C2_RelayFaultReturned ==
    (pc = "done" /\ relayRes # "none") =>
        /\ relayRes = "nil" => ret = "nil"
        /\ relayRes # "nil" => ret # "nil"

\* position in tRecv of the first request forwarded with Upgrade: websocket
UpgradeForwarded ==
    \E i \in 1..Len(tRecv) : tRecv[i].kind = "req" /\ IsUpgrade(tRecv[i])
UpgradeAt ==
    CHOOSE i \in 1..Len(tRecv) :
        /\ tRecv[i].kind = "req" /\ IsUpgrade(tRecv[i])
        /\ \A j \in 1..(i - 1) : ~(tRecv[j].kind = "req" /\ IsUpgrade(tRecv[j]))

(* C3: in the HTTP-aware relay, after a request carrying Upgrade: websocket *)
(* has been forwarded, the bytes the client sends after that request reach  *)
(* the target exactly once and in order (what the target has received after *)
(* the request is a prefix of what the client sent after it, and all of it  *)
(* once the copy has reached the client's end-of-stream), also the bytes    *)
(* that br had read ahead; and the target's bytes reach the client exactly  *)
(* once and in order.                                                       *)
C3_UpgradeBytesDelivered ==
    (relayMode = "http" /\ UpgradeForwarded) =>
        /\ IsPrefix(Suffix(tRecv, UpgradeAt), Suffix(cSent, UpgradeAt))
        /\ (upPc \in {"send", "exit"} /\ upRes = "EOF")
               => Suffix(tRecv, UpgradeAt) = Suffix(cSent, UpgradeAt)
        /\ IsPrefix(cRecv, tSent)

(* C4: if the rate limiter denies admission, the session ends with a nil    *)
(* error, no sniffing, Select or Dial is performed in it, and the accepted  *)
(* connection is closed.                                                    *)
C4_DeniedSessionSilent ==
    allowRes = "false" =>
        /\ pc = "done" /\ ret = "nil"
        /\ nSniff = 0 /\ nSelect = 0 /\ nDial = 0
        /\ conn = "closed" /\ cc = "none"

C4_Witness ==
    /\ allowRes = "false" /\ pc = "done" /\ ret = "nil" /\ conn = "closed"

(* C5: for a node selected from the hop, a session whose dial fails leaves  *)
(* the node's Marker dead and returns the dial error, and a session whose   *)
(* dial succeeds leaves it alive, whatever the Marker was before: after     *)
(* each session the Marker is the outcome of that session's dial.           *)
C5_MarkerFollowsDial ==
    target \in Nodes =>
        /\ dialOk = "fail" => (marker[target] = "dead" /\ pc = "done" /\ ret = "dial error")
        /\ dialOk = "ok" => marker[target] = "alive"

\* a success after an earlier failure on the same node
C5_Witness ==
    /\ pc = "done" /\ target \in Nodes
    /\ markerBefore = "dead" /\ dialOk = "ok" /\ marker[target] = "alive"

(* C6: when a hop is attached and Select returns no node, the session ends  *)
(* with a non-nil error (target not available) and no Dial is attempted.    *)
C6_NoTargetIsFatal ==
    (hop = "hop" /\ target = NilNode) =>
        /\ pc = "done" /\ ret = "target not available"
        /\ nDial = 0 /\ dialOk = "none" /\ cc = "none"

C6_Witness ==
    /\ hop = "hop" /\ target = NilNode /\ nSelect = 1 /\ pc = "done"
    /\ ret = "target not available"

(* C7: every session performs at most one Dial and at most one Select: a    *)
(* failed dial ends the session, and so does the end of the relay, without  *)
(* another dial.                                                            *)
C7_AtMostOneDial ==
    /\ nDial <= 1 /\ nSelect <= 1
    /\ dialOk = "fail" => pc = "done"
    /\ relayRes # "none" => (pc = "done" /\ nDial = 1)

C7_Witness ==
    /\ pc = "done" /\ dialOk = "fail" /\ nDial = 1 /\ nSelect = 1

(* C8 as stated: Lookup on the value from Get("") and on the handle from    *)
(* Get(n), n with nothing registered, returns not-found and never panics.   *)
C8_Original ==
    (lastCall # NoCall /\ (lastCall.handle = GetHandle("") \/ lastCall.regOk = NoImpl))
        => lastCall.result = NotFound

(* C8: a handle from Get(n), n non-empty with nothing registered, returns   *)
(* the not-found result from Lookup without panicking; Get("") returns nil, *)
(* no handle, and only on that nil value does a call of Lookup panic.       *)
C8_UnregisteredNotFound ==
    /\ (lastCall # NoCall /\ lastCall.handle # NilHandle /\ lastCall.regOk = NoImpl)
           => lastCall.result = NotFound
    /\ (lastCall # NoCall /\ lastCall.handle # NilHandle) => lastCall.result # Panic
    /\ (lastCall # NoCall /\ lastCall.handle = NilHandle) => lastCall.result = Panic
    /\ NilHandle \in handles => getSaw[""] # "never"

C8_Witness ==
    /\ lastCall # NoCall /\ lastCall.handle # NilHandle
    /\ lastCall.regOk = NoImpl /\ lastCall.result = NotFound

(* C9 as stated: a Lookup through a handle for n forwards to the            *)
(* implementation passed to the latest Register(n, _): after Register(n, A) *)
(* then Register(n, B) it observes B.                                       *)
C9_Original ==
    (lastCall # NoCall /\ lastCall.handle # NilHandle /\ lastCall.reg # NoImpl)
        => lastCall.result = ImplLookup(lastCall.reg, lastCall.network, lastCall.host)

(* C9: a Lookup through a handle for a non-empty name n forwards to the     *)
(* implementation stored under n at the time of the call, the one passed to *)
(* the latest Register(n, _) that succeeded, whether the handle was         *)
(* obtained before or after that registration; where duplicates overwrite,  *)
(* that is the implementation of the latest Register(n, _).                 *)
C9_LateBinding ==
    (lastCall # NoCall /\ lastCall.handle # NilHandle) =>
        /\ lastCall.result =
               IF lastCall.regOk = NoImpl THEN NotFound
               ELSE ImplLookup(lastCall.regOk, lastCall.network, lastCall.host)
        /\ overwrite => lastCall.regOk = lastCall.reg

\* a handle obtained while A was registered observes B, registered later
C9_Witness ==
    /\ lastCall # NoCall /\ lastCall.handle # NilHandle
    /\ lastCall.saw = "A" /\ lastCall.regOk = "B"
    /\ lastCall.result = ImplLookup("B", lastCall.network, lastCall.host)

ParsedCount == IF UpgradeForwarded THEN UpgradeAt ELSE Len(tRecv)

(* C11: in the HTTP-aware relay the target receives one rewritten request   *)
(* per parsed request, in the order received: the i-th request received is  *)
(* the i-th request sent with its Host replaced by the override when that   *)
(* is non-empty, every configured extra header set to its configured value, *)
(* and all other headers unchanged.                                         *)
C11_RewrittenRequests ==
    relayMode = "http" =>
        /\ ParsedCount <= Len(cSent)
        /\ \A i \in 1..ParsedCount :
              LET settings == NodeHTTP(target)
              IN  /\ tRecv[i].kind = "req" /\ cSent[i].kind = "req"
                  /\ tRecv[i].host = IF settings.Host # Str0 THEN settings.Host
                                     ELSE cSent[i].host
                  /\ \A k \in HeaderNames :
                        tRecv[i].hdr[k] = IF k \in DOMAIN settings.Header
                                          THEN settings.Header[k]
                                          ELSE cSent[i].hdr[k]

(* C12: within one session Mark and Reset are invoked only as the immediate *)
(* consequence of that session's dial result, at most one of them and at    *)
(* most once, and only on the dialed node: a session ended by a denial or   *)
(* by Select returning no node changes no Marker, and nothing in the relay  *)
(* phase changes one.                                                       *)
C12_MarkerOnlyByDial ==
    /\ [](/\ nMark + nReset <= 1
          /\ nMark + nReset = 1 => (nDial = 1 /\ target \in Nodes)
          /\ nMark = 1 => dialOk = "fail"
          /\ nReset = 1 => dialOk = "ok")
    /\ [][marker' # marker =>
             /\ pc = "resolved" /\ pc' \in {"relay", "done"}
             /\ nDial = 0 /\ nDial' = 1
             /\ target \in Nodes
             /\ \A n \in Nodes \ {target} : marker'[n] = marker[n]]_vars

C12_Witness ==
    /\ pc = "done" /\ relayRes = "io error" /\ target \in Nodes
    /\ markerBefore = "dead" /\ nReset = 1 /\ nMark = 0 /\ marker[target] = "alive"
    /\ \E n \in Nodes \ {target} : marker[n] = "dead"

\* the element the rewrite task has just written to the target, if it wrote one
Forwarded == Len(tRecv') = Len(tRecv) + 1 /\ upPc = "read"

(* C13: handleHTTP returns on the first result either task delivers,       *)
(* without waiting for the other task; forwarding a request that is not an *)
(* upgrade delivers no result, so it does not end the session.             *)
C13_FirstResultReturns ==
    /\ []((pc = "relay" /\ relayMode = "http" /\ errc # <<>>) => ENABLED HTTPReturn)
    /\ []((pc = "done" /\ relayMode = "http") => (upPc = "exit" \/ downPc = "exit"))
    /\ [][(relayMode = "http" /\ pc = "relay" /\ pc' = "done") =>
             /\ errc # <<>>
             /\ relayRes' = (IF Head(errc) \in {"nil", "EOF"} THEN "nil" ELSE Head(errc))
             /\ upPc' = upPc /\ downPc' = downPc]_vars
    /\ [][(relayMode = "http" /\ Forwarded
             /\ tRecv'[Len(tRecv')].hdr["Upgrade"] # "websocket") =>
             /\ pc' = "relay" /\ upPc' = "read"
             /\ errc' = errc /\ upRes' = upRes]_vars

C13_Witness ==
    /\ pc = "done" /\ relayMode = "http" /\ ret = "nil"
    /\ downPc = "exit" /\ upPc = "read"
    /\ tRecv # <<>> /\ tRecv[1].kind = "req" /\ tRecv[1].hdr["Upgrade"] # "websocket"

\* a step of the HTTP relay's tasks: the session neither starts nor returns
TaskStep == relayMode = "http" /\ pc' = pc /\ relayMode' = "http"
\* the step takes elements off the stream
Consumes(q, qNext) == Len(qNext) < Len(q)

(* C14: in the HTTP relay the passthrough task reads only from the target  *)
(* and writes only to the client; the rewrite task reads only from the     *)
(* client and writes only to the target, also while it copies after an     *)
(* upgrade; so no stream is read by both tasks.                            *)
C14_TaskDirections ==
    [][TaskStep =>
          /\ (Consumes(t2c, t2c') \/ cRecv' # cRecv) =>
                /\ downPc = "copy"
                /\ cRecv' \o t2c' = cRecv \o t2c
                /\ UNCHANGED <<c2s, brBuf, tRecv, upPc, upRes>>
          /\ (Consumes(c2s, c2s') \/ brBuf' # brBuf \/ tRecv' # tRecv) =>
                /\ upPc \in {"read", "copy"}
                /\ upPc = "copy" => (tRecv' \o c2s' = tRecv \o c2s /\ brBuf' = brBuf)
                /\ upPc = "read" => Len(tRecv') <= Len(tRecv) + 1
                /\ UNCHANGED <<t2c, cRecv, downPc, downRes>>
          /\ (downPc' # downPc \/ downRes' # downRes) => UNCHANGED <<c2s, brBuf, tRecv>>
          /\ (upPc' # upPc \/ upRes' # upRes) => UNCHANGED <<t2c, cRecv>>]_vars

C14_Witness ==
    /\ relayMode = "http" /\ pc = "relay"
    /\ UpgradeForwarded /\ upPc = "copy"
    /\ cRecv # <<>> /\ cRecv = tSent
    /\ c2s = <<>> /\ t2c = <<>>

\* a request on the wire that asks for the websocket upgrade
Websocket(e) == e.kind = "req" /\ e.hdr["Upgrade"] = "websocket"
WebsocketSent == \E i \in 1..Len(tRecv) : Websocket(tRecv[i])
FirstWebsocket ==
    CHOOSE i \in 1..Len(tRecv) :
        Websocket(tRecv[i]) /\ \A j \in 1..(i - 1) : ~Websocket(tRecv[j])
\* what the target holds was sent by the client in exactly this form
Raw(e) == \E j \in 1..Len(cSent) : cSent[j] = e

(* C15: the upgrade request is written to the target exactly once; after   *)
(* it the rewrite task parses no further request: it makes one raw copy    *)
(* from client to target, then delivers exactly one result, EOF when the   *)
(* copy ended cleanly and the copy's error otherwise, and exits.           *)
C15_UpgradeThenRawCopy ==
    /\ []((relayMode = "http" /\ WebsocketSent) =>
             /\ upPc \in {"copy", "send", "exit"}
             /\ ~Raw(tRecv[FirstWebsocket])
             /\ \A j \in (FirstWebsocket + 1)..Len(tRecv) : Raw(tRecv[j])
             /\ upPc \in {"send", "exit"} => upRes \in {"EOF", "io error"}
             /\ Len(errc) <= 1)
    /\ [][(relayMode = "http" /\ pc' # "accepted") =>
             /\ (upPc = "copy" /\ upPc' # "copy") =>
                   /\ upPc' = "send" /\ tRecv' = tRecv /\ errc' = errc
                   /\ upRes' = "EOF" => (conn = "open" /\ c2s = <<>> /\ cClosed)
                   /\ upRes' # "EOF" => upRes' = "io error"
             /\ (upPc = "send" /\ upPc' # "send") =>
                   /\ upPc' = "exit" /\ upRes' = upRes /\ tRecv' = tRecv
                   /\ errc' = Append(errc, upRes)
             /\ upPc = "exit" =>
                   upPc' = "exit" /\ upRes' = upRes /\ tRecv' = tRecv]_vars

C15_Witness ==
    /\ relayMode = "http" /\ WebsocketSent /\ FirstWebsocket = 1
    /\ Len(tRecv) = 2 /\ tRecv[2] = ReqPlain /\ cSent[2] = ReqPlain
    /\ upPc = "exit" /\ upRes = "EOF"

(* C16: each task sends at most one result on errc, which holds one result *)
(* and is received from once, so neither task stays blocked on its send    *)
(* for ever; and once the session has returned and both connections are   *)
(* closed, both tasks eventually terminate.                                *)
C16_TasksTerminate ==
    /\ [](Len(errc) <= 1)
    /\ [][(errc' # errc /\ pc' # "accepted") =>
             \/ /\ upPc = "send" /\ upPc' = "exit" /\ downPc' = downPc
                /\ errc' = Append(errc, upRes) /\ pc' = pc
             \/ /\ downPc = "send" /\ downPc' = "exit" /\ upPc' = upPc
                /\ errc' = Append(errc, downRes) /\ pc' = pc
             \/ /\ pc = "relay" /\ pc' = "done" /\ errc' = Tail(errc)
                /\ upPc' = upPc /\ downPc' = downPc]_vars
    /\ [][(upPc = "exit" => upPc' \in {"exit", "off"})
          /\ (downPc = "exit" => downPc' \in {"exit", "off"})]_vars
    /\ (upPc = "send") ~> (upPc = "exit")
    /\ (downPc = "send") ~> (downPc = "exit")
    /\ (pc = "done" /\ relayMode = "http" /\ conn = "closed" /\ cc = "closed")
           ~> (upPc = "exit" /\ downPc = "exit")

C16_Witness ==
    /\ pc = "done" /\ relayMode = "http" /\ conn = "closed" /\ cc = "closed"
    /\ upPc = "exit" /\ downPc = "exit" /\ errc # <<>>

\* the session has passed the sniffing stage of Handle
PastSniff == pc \in {"sniffed", "resolved", "relay"} \/ (pc = "done" /\ ret # "none" /\ allowRes # "false")
HTTPNode(t) == t \in Nodes /\ NodeHTTP(t) # NoHTTP

(* C17: the connection is sniffed only when the sniffing flag is on and    *)
(* the connection is stream-oriented; otherwise host and protocol are      *)
(* empty and the relay is never the HTTP relay. The HTTP relay is used     *)
(* only when the protocol is HTTP and the node carries HTTP settings; in   *)
(* every other case the relay is the plain one.                            *)
C17_SniffAndRelayChoice ==
    /\ nSniff <= 1
    /\ nSniff = 1 => (sniffing /\ connKind = "stream")
    /\ (PastSniff /\ sniffing /\ connKind = "stream") => nSniff = 1
    /\ (PastSniff /\ nSniff = 0) =>
          /\ protocol = ""
          /\ host \in {Str0, JoinHostPort(Str0, <<"0">>)}
          /\ relayMode # "http"
    /\ relayMode = "http" => (protocol = "http" /\ HTTPNode(target))
    /\ relayMode = "plain" => ~(protocol = "http" /\ HTTPNode(target))
    /\ pc = "relay" => relayMode \in {"http", "plain"}

C17_Witness ==
    /\ pc = "relay" /\ relayMode = "plain"
    /\ sniffing /\ connKind = "packet" /\ nSniff = 0
    /\ HTTPNode(target)
    /\ cSent # <<>> /\ cSent[1].kind = "req"

(* C18: without a hop, Select is never invoked, the address dialed is the  *)
(* normalised sniffed host and neither Mark nor Reset is invoked; with a   *)
(* hop, the address dialed is the address of the node Select returned.     *)
C18_DialAddress ==
    /\ (hop = "nil" /\ pc # "idle") =>
          /\ nSelect = 0 /\ nMark = 0 /\ nReset = 0
          /\ target \in {NoNode, DirectNode}
          /\ nDial = 1 => dialAddr = host
    /\ (hop # "nil" /\ nDial = 1) =>
          /\ nSelect = 1 /\ target \in Nodes
          /\ dialAddr = NodeAddr(target)

C18_Witness ==
    /\ hop = "nil" /\ pc = "done" /\ nDial = 1 /\ dialOk = "fail"
    /\ nSniff = 1 /\ host = <<"h", ":", "8">> /\ dialAddr = <<"h", ":", "8">>
    /\ marker = [n \in Nodes |-> "alive"]

\* the host carries a port, as net.SplitHostPort reads it
HasPort(h) == ~SplitHostPort(h).err

(* C19: the host hint handed to Select, or dialed directly, is always in   *)
(* host:port form: a sniffed host that already has a port is passed        *)
(* unchanged, and a host without a port, the empty host of an unsniffed    *)
(* session included, gets port 0 appended.                                 *)
C19_HostHintHasPort ==
    [][(pc = "sniffed" /\ pc' # "sniffed") =>
          /\ HasPort(host')
          /\ HasPort(host) => host' = host
          /\ ~HasPort(host) => host' = host \o <<":", "0">>]_vars

\* the key of the session's limiter: the remote address without its port
LimiterKey == SplitHostPort(connRemote).host
Limited == rateLimiter # "nil" /\ LimiterKey \in LimiterHosts

(* C20: admission is granted without consuming a token when no rate        *)
(* limiter is configured or the rate limiter has no limiter for the remote *)
(* host, port stripped; otherwise the admission is exactly the result of   *)
(* one Allow(1) on that host's limiter, made before any sniffing, Select   *)
(* or Dial.                                                                *)
C20_Admission ==
    /\ [][(pc = "accepted" /\ pc' # "accepted") =>
             /\ nSniff' = 0 /\ nSelect' = 0 /\ nDial' = 0
             /\ ~Limited =>
                   /\ tokens' = tokens /\ allowRes' = "none"
                   /\ pc' = "admitted"
             /\ (Limited /\ tokens[LimiterKey] > 0) =>
                   /\ tokens' = [tokens EXCEPT ![LimiterKey] = @ - 1]
                   /\ allowRes' = "true" /\ pc' = "admitted"
             /\ (Limited /\ tokens[LimiterKey] = 0) =>
                   /\ tokens' = tokens /\ allowRes' = "false"
                   /\ pc' = "done" /\ ret' = "nil"]_vars
    /\ [][(\E h \in LimiterHosts : tokens'[h] < tokens[h]) => pc = "accepted"]_vars
    /\ [](pc \in {"accepted", "idle"} => (nSniff = 0 /\ nSelect = 0 /\ nDial = 0))

C20_Witness ==
    /\ pc = "admitted" /\ rateLimiter # "nil" /\ allowRes = "none"
    /\ LimiterKey = <<"q">> /\ ~Limited
    /\ \E h \in LimiterHosts : tokens[h] = 0
====
